---- MODULE Spec2Model ----
(***************************************************************************)
(* Wolfram elementary cellular automata (cells.py): the Ruleset decoder,   *)
(* the Generation row and the cycle / reset state machine driven by        *)
(* loop().                                                                 *)
(*                                                                         *)
(* Python lists are 0-indexed; a list is modelled as a TLA+ sequence and   *)
(* list element i is sequence element i + 1.  Python strings are modelled  *)
(* as sequences of one-character strings.  The float cell_size is modelled *)
(* as an exact fraction <<numerator, denominator>> (no rounding).          *)
(***************************************************************************)
EXTENDS Integers, Sequences, FiniteSets, TLC

VARIABLES
    \* ---- fields of State ----
    should_cycle,           \* s.SHOULD_CYCLE
    random_rules,           \* s.random_rules (the pool after shuffle)
    cell_size,              \* s.cell_size, as a fraction <<num, den>>
    screen_width,           \* s.screen_width
    screen_height,          \* s.screen_height
    off_x,                  \* s.off_x
    off_y,                  \* s.off_y
    generations,            \* s.generations: sequence of rows (_cells)
    gen_num,                \* s.gen_num
    is_cycle_delay,         \* s.is_cycle_delay
    cycle_delay_start_s,    \* s.cycle_delay_start_s
    is_paused,              \* s.is_paused
    is_running,             \* s.is_running
    cycle_index,            \* s.cycle_index
    ruleset,                \* s.ruleset._rules
    \* ---- environment and control position ----
    now,                    \* the reading time() returns
    pc,                     \* position in the main loop / render_cycle
    drawn,                  \* Generation.draw calls issued by the last step
    last_draw_s,            \* clock reading of the last tick that drew a row
    \* ---- free-standing objects the unit operations act on ----
    u_ruleset,              \* a Ruleset under construction / constructed
    u_cells,                \* _cells of a free-standing Generation
    u_res                   \* outcome of the last unit operation

ctlvars == <<should_cycle, random_rules, cell_size, screen_width,
             screen_height, off_x, off_y, generations, gen_num,
             is_cycle_delay, cycle_delay_start_s, is_paused, is_running,
             cycle_index, ruleset, now, pc, drawn, last_draw_s>>

unitvars == <<u_ruleset, u_cells, u_res>>

vars == <<ctlvars, unitvars>>

----------------------------------------------------------------------------
(* Bounds *)

\* Width and height of the initial window (800 in the program).
SCREEN_WIDTH == 10

\* Largest window dimension a resize event reports.
MaxDim == 2

\* Number of pool entries taken from RULES.
MaxRules == 2

\* Largest number of random indices one randomize() draws.
MaxDraws == 2

\* Largest clock reading.
MaxTime == 4

\* The delay between cycles, in clock units (2.5 seconds in the program).
CYCLE_DELAY_S == 2

\* Largest row length of the free-standing Generation.
MaxLen == 3

\* Largest row length of the single-seed run.
MaxSeedLen == 10

\* How far outside [0, 255] the rule values tried reach.
MaxOut == 2

(* Program constants *)

SCREEN_HEIGHT == SCREEN_WIDTH

CELL_SIZE == 5

GENERATION_LEN == SCREEN_WIDTH \div CELL_SIZE

RULES == <<1, 6, 7, 9, 18, 22, 26, 28, 30, 37, 41, 45, 50, 54, 57, 59, 60,
           61, 62, 65, 69, 70, 73, 74, 75, 77, 79, 81, 82, 84, 91, 92, 94,
           99, 101, 102, 105, 107, 109, 118, 121, 126, 129, 131, 132, 133,
           135, 137, 141, 143, 145, 146, 147, 149, 150, 151, 157, 158,
           161, 163, 166, 167, 169, 177, 182, 185, 188, 189, 195, 197,
           201, 203, 205, 206, 211, 212, 214, 215, 222, 225, 229, 230,
           241, 242, 246>>

----------------------------------------------------------------------------
(* Python built-ins used by Ruleset *)

Digit(n) == IF n = 0 THEN "0" ELSE "1"

RECURSIVE BinDigits(_)
BinDigits(n) ==
    IF n < 2 THEN <<Digit(n)>>
    ELSE BinDigits(n \div 2) \o <<Digit(n % 2)>>

\* bin(v): "0b..." for v >= 0, "-0b..." for v < 0
Bin(v) ==
    IF v < 0 THEN <<"-", "0", "b">> \o BinDigits(-v)
    ELSE <<"0", "b">> \o BinDigits(v)

\* s[2:]
From2(s) == SubSeq(s, 3, Len(s))

\* s.rjust(width, "0")
Rjust(s, width) ==
    IF Len(s) >= width THEN s
    ELSE [k \in 1..(width - Len(s)) |-> "0"] \o s

\* int(ch) succeeds on a digit only
IntFails(ch) == ch \notin {"0", "1"}

IntOf(ch) == IF ch = "1" THEN 1 ELSE 0

\* str(a) for the cell values
Str(a) == IF a = 0 THEN "0" ELSE IF a = 1 THEN "1" ELSE "?"

\* d[k] = v on a dict
DictSet(d, k, v) ==
    [x \in (DOMAIN d) \cup {k} |-> IF x = k THEN v ELSE d[x]]

EmptyDict == [x \in {} |-> 0]

----------------------------------------------------------------------------
(* Ruleset *)

\* rule_bin = bin(rule_value)[2:].rjust(8, "0")
RuleBin(rule_value) == Rjust(From2(Bin(rule_value)), 8)

NeighbourhoodSwapped(i) == Rjust(From2(Bin(i)), 3)

\* neighbourhood = bin(7 - i)[2:].rjust(3, "0")
Neighbourhood(i) == Rjust(From2(Bin(7 - i)), 3)

\* the loop "for i in range(8)" from iteration i on, _rules being acc
RECURSIVE RulesLoop(_, _, _)
RulesLoop(rule_bin, i, acc) ==
    IF i = 8 THEN [error |-> "none", _rules |-> acc]
    ELSE IF IntFails(rule_bin[i + 1])
         THEN [error |-> "ValueError", _rules |-> EmptyDict]
         ELSE RulesLoop(rule_bin, i + 1,
                        DictSet(acc, Neighbourhood(i), IntOf(rule_bin[i + 1])))

\* Ruleset.__init__: the constructed _rules, or the exception raised
Ruleset(rule_value) == RulesLoop(RuleBin(rule_value), 0, EmptyDict)

get_rule_Reversed(rules, a, b, c) == rules[<<Str(c), Str(b), Str(a)>>]

\* Ruleset.get_rule on a _rules dict
GetRuleFails(rules, a, b, c) == <<Str(a), Str(b), Str(c)>> \notin DOMAIN rules

get_rule(rules, a, b, c) == rules[<<Str(a), Str(b), Str(c)>>]

----------------------------------------------------------------------------
(* Generation *)

\* Generation.__init__: [0] * len
Generation(len) == [k \in 1..len |-> 0]

get_len(cells) == Len(cells)

\* list indexing: indices -len .. len-1 are accepted, the rest raise
IndexFails(cells, index) == index < -Len(cells) \/ index >= Len(cells)

\* position in the sequence of the list element a (valid) index denotes
Pos(cells, index) == IF index < 0 THEN Len(cells) + index + 1 ELSE index + 1

get_cell(cells, index) == cells[Pos(cells, index)]

\* 0 if cell == 0 else 1
Clamp(cell) == IF cell = 0 THEN 0 ELSE 1

set_cell_Raw(cells, index, cell) ==
    [cells EXCEPT ![Pos(cells, index)] = cell]

\* self._cells[index] = 0 if cell == 0 else 1
set_cell(cells, index, cell) ==
    [cells EXCEPT ![Pos(cells, index)] = Clamp(cell)]

\* index of the left neighbour, without the wrap
PrevIndexNoWrap(gen_len, i) == IF i = 0 THEN 0 ELSE i - 1

\* (gen_len + i - 1) % gen_len
PrevIndex(gen_len, i) == (gen_len + i - 1) % gen_len

\* index of the right neighbour, without the wrap
NextIndexNoWrap(gen_len, i) == IF i + 1 >= gen_len THEN i ELSE i + 1

\* (i + 1) % gen_len
NextIndex(gen_len, i) == (i + 1) % gen_len

\* evolve_copy with a loop that stops one cell early
evolve_copy_Short(cells, rules) ==
    LET gen_len == get_len(cells)
    IN  [k \in 1..(gen_len - 1) |->
            LET i == k - 1
                prev_cell == get_cell(cells, PrevIndex(gen_len, i))
                cell == get_cell(cells, i)
                next_cell == get_cell(cells, NextIndex(gen_len, i))
            IN  Clamp(get_rule(rules, prev_cell, cell, next_cell))]

\* Generation.evolve_copy: the _cells of the returned Generation
evolve_copy(cells, rules) ==
    LET gen_len == get_len(cells)
    IN  [k \in 1..gen_len |->
            LET i == k - 1
                prev_cell == get_cell(cells, PrevIndex(gen_len, i))
                cell == get_cell(cells, i)
                next_cell == get_cell(cells, NextIndex(gen_len, i))
            IN  Clamp(get_rule(rules, prev_cell, cell, next_cell))]

\* randint(0, len - 1) raises on an empty range
RandomizeFails(cells) == get_len(cells) < 1

\* the draws randint(0, len - 1) can return
RandInts(len) == 0..(len - 1)

\* the sequences of indices one randomize() can draw: a first one, then one
\* more for every random() < 0.5
DrawSeqs(len) ==
    UNION {[1..n -> RandInts(len)] : n \in 1..MaxDraws}

RECURSIVE SetAll(_, _, _)
SetAll(cells, draws, k) ==
    IF k > Len(draws) THEN cells
    ELSE SetAll(set_cell(cells, draws[k], 1), draws, k + 1)

randomize_NoFirst(cells, draws) ==
    SetAll(Generation(get_len(cells)), draws, 2)

\* Generation.randomize with the given draws
randomize(cells, draws) ==
    SetAll(Generation(get_len(cells)), draws, 1)

----------------------------------------------------------------------------
(* State.__init__ and setup *)

RECURSIVE Gcd(_, _)
Gcd(a, b) == IF b = 0 THEN a ELSE Gcd(b, a % b)

\* the fraction n / d in lowest terms
Frac(n, d) == <<n \div Gcd(n, d), d \div Gcd(n, d)>>

Min(a, b) == IF a <= b THEN a ELSE b

\* the longest list of rules handed to State.__init__
Pool == SubSeq(RULES, 1, MaxRules)

\* the orders shuffle(self.random_rules) can leave the pool in
Shuffles(rules) ==
    {p \in [1..Len(rules) -> {rules[k] : k \in 1..Len(rules)}] :
        \A a, b \in 1..Len(rules) : a # b => p[a] # p[b]}

\* the pools State.__init__ can end up with: a prefix of RULES, shuffled
Pools == UNION {Shuffles(SubSeq(RULES, 1, n)) : n \in 1..MaxRules}

\* the values of RULE_VALUE tried: -1 (random) or a fixed rule
RuleValues == {-1} \cup {Pool[k] : k \in 1..Len(Pool)}

\* what a unit operation was given and what came of it
Res(op, index, cell, error, value, before) ==
    [op |-> op, index |-> index, cell |-> cell, error |-> error,
     value |-> value, before |-> before]

UnitInit ==
    /\ u_ruleset = [rule_value |-> -1, error |-> "unbuilt", _rules |-> EmptyDict]
    /\ u_cells = <<>>
    /\ u_res = Res("none", 0, 0, "none", 0, <<>>)

StateInit(cycle, rules, rule_value, draws) ==
    /\ should_cycle = cycle
    /\ cell_size = Frac(CELL_SIZE, 1)
    /\ cycle_delay_start_s = 0
    /\ is_cycle_delay = FALSE
    /\ generations = <<randomize(Generation(GENERATION_LEN), draws)>>
    /\ gen_num = 0
    /\ is_paused = FALSE
    /\ is_running = TRUE
    /\ off_x = 0
    /\ off_y = 0
    /\ cycle_index = 0
    /\ random_rules = rules
    /\ ruleset = IF rule_value = -1
                 THEN Ruleset(rules[cycle_index + 1])._rules
                 ELSE Ruleset(rule_value)._rules
    /\ screen_width = SCREEN_WIDTH
    /\ screen_height = SCREEN_HEIGHT
    /\ now = 0
    /\ pc = "loop"
    /\ drawn = <<>>
    /\ last_draw_s = -1

Init ==
    /\ \E cycle \in BOOLEAN, rules \in Pools, rule_value \in RuleValues,
          draws \in DrawSeqs(GENERATION_LEN) :
            StateInit(cycle, rules, rule_value, draws)
    /\ UnitInit

----------------------------------------------------------------------------
(* reset *)

NextCycleIndexStuck(index, len) == index

\* s.cycle_index += 1, wrapping to 0 past the end
NextCycleIndex(index, len) == IF index + 1 >= len THEN 0 ELSE index + 1

\* the length reset() gives the new first generation
ResetLen == Len(generations)

\* reset() building the Ruleset before it advances the index
reset_StaleRule(draws) ==
    /\ generations' = <<randomize(Generation(ResetLen), draws)>>
    /\ gen_num' = 0
    /\ cycle_index' = NextCycleIndex(cycle_index, Len(random_rules))
    /\ ruleset' = Ruleset(random_rules[cycle_index + 1])._rules

reset(draws) ==
    /\ generations' = <<randomize(Generation(ResetLen), draws)>>
    /\ gen_num' = 0
    /\ cycle_index' = NextCycleIndex(cycle_index, Len(random_rules))
    /\ ruleset' = Ruleset(random_rules[cycle_index' + 1])._rules

\* reset() left at line 280 by the exception randomize() raises
reset_raises ==
    /\ generations' = <<Generation(ResetLen)>>
    /\ gen_num' = 0
    /\ UNCHANGED <<cycle_index, ruleset>>

----------------------------------------------------------------------------
(* render_cycle *)

DelayPendingShort == now - cycle_delay_start_s < CYCLE_DELAY_S - 1

\* time() - s.cycle_delay_start_s < s.CYCLE_DELAY_S
DelayPending == now - cycle_delay_start_s < CYCLE_DELAY_S

\* new_y + s.cell_size <= screen_bottom, cleared of the denominator
Fits ==
    LET n == cell_size[1]
        d == cell_size[2]
    IN  off_y * d + gen_num * n + n <= (screen_height - off_y) * d

\* where control goes when loop() returns
LoopEnd == IF is_running THEN "loop" ELSE "stopped"

FullAlwaysDelay ==
    /\ is_cycle_delay' = TRUE
    /\ cycle_delay_start_s' = now
    /\ UNCHANGED is_paused

FullAlwaysPause ==
    /\ is_paused' = TRUE
    /\ UNCHANGED <<is_cycle_delay, cycle_delay_start_s>>

\* the else branch: the next row does not fit
Full ==
    IF should_cycle
    THEN /\ is_cycle_delay' = TRUE
         /\ cycle_delay_start_s' = now
         /\ UNCHANGED is_paused
    ELSE /\ is_paused' = TRUE
         /\ UNCHANGED <<is_cycle_delay, cycle_delay_start_s>>

CurrentRowFirst == generations[1]

\* s.generations[s.gen_num]
CurrentRow == generations[gen_num + 1]

\* lines 303-318, entered with the delay flag and start given
RenderRows ==
    IF Fits
    THEN /\ drawn' = <<gen_num>>
         /\ last_draw_s' = now
         /\ generations' =
                Append(generations, evolve_copy(CurrentRow, ruleset))
         /\ gen_num' = gen_num + 1
         /\ UNCHANGED <<is_cycle_delay, cycle_delay_start_s, is_paused>>
    ELSE /\ drawn' = <<>>
         /\ Full
         /\ UNCHANGED <<generations, gen_num, last_draw_s>>

\* loop() with s.is_paused set: render_cycle is not called
TickPaused ==
    /\ pc = "loop"
    /\ is_paused
    /\ drawn' = <<>>
    /\ pc' = LoopEnd
    /\ UNCHANGED <<should_cycle, random_rules, cell_size, screen_width,
                   screen_height, off_x, off_y, generations, gen_num,
                   is_cycle_delay, cycle_delay_start_s, is_paused, is_running,
                   cycle_index, ruleset, now, last_draw_s>>
    /\ UNCHANGED unitvars

\* render_cycle returning at line 297
TickDelayWait ==
    /\ pc = "loop"
    /\ ~is_paused
    /\ is_cycle_delay
    /\ DelayPending
    /\ drawn' = <<>>
    /\ pc' = LoopEnd
    /\ UNCHANGED <<should_cycle, random_rules, cell_size, screen_width,
                   screen_height, off_x, off_y, generations, gen_num,
                   is_cycle_delay, cycle_delay_start_s, is_paused, is_running,
                   cycle_index, ruleset, now, last_draw_s>>
    /\ UNCHANGED unitvars

\* the expired delay handled without lines 300-301
TickReset_KeepDelay ==
    /\ pc = "loop"
    /\ ~is_paused
    /\ is_cycle_delay
    /\ ~DelayPending
    /\ \E draws \in DrawSeqs(ResetLen) : reset(draws)
    /\ pc' = "reset_done"
    /\ drawn' = <<>>
    /\ UNCHANGED <<should_cycle, random_rules, cell_size, screen_width,
                   screen_height, off_x, off_y, is_paused, is_running, now,
                   last_draw_s, cycle_delay_start_s, is_cycle_delay>>
    /\ UNCHANGED unitvars

\* render_cycle, lines 299-301: the delay has expired
TickReset ==
    /\ pc = "loop"
    /\ ~is_paused
    /\ is_cycle_delay
    /\ ~DelayPending
    /\ IF RandomizeFails(Generation(ResetLen))
       THEN /\ reset_raises
            /\ pc' = "raised"
            /\ UNCHANGED <<cycle_delay_start_s, is_cycle_delay>>
       ELSE /\ \E draws \in DrawSeqs(ResetLen) : reset(draws)
            /\ cycle_delay_start_s' = 0
            /\ is_cycle_delay' = FALSE
            /\ pc' = "reset_done"
    /\ drawn' = <<>>
    /\ UNCHANGED <<should_cycle, random_rules, cell_size, screen_width,
                   screen_height, off_x, off_y, is_paused, is_running, now,
                   last_draw_s>>
    /\ UNCHANGED unitvars

\* render_cycle returning right after reset()
RenderAfterReset_Return ==
    /\ pc = "reset_done"
    /\ drawn' = <<>>
    /\ pc' = LoopEnd
    /\ UNCHANGED <<should_cycle, random_rules, cell_size, screen_width,
                   screen_height, off_x, off_y, generations, gen_num,
                   is_cycle_delay, cycle_delay_start_s, is_paused, is_running,
                   cycle_index, ruleset, now, last_draw_s>>
    /\ UNCHANGED unitvars

\* render_cycle, lines 303-318, in the call that has just reset
RenderAfterReset ==
    /\ pc = "reset_done"
    /\ RenderRows
    /\ pc' = LoopEnd
    /\ UNCHANGED <<should_cycle, random_rules, cell_size, screen_width,
                   screen_height, off_x, off_y, is_running, cycle_index,
                   ruleset, now>>
    /\ UNCHANGED unitvars

\* render_cycle, lines 303-318, in a call outside the delay
TickRender ==
    /\ pc = "loop"
    /\ ~is_paused
    /\ ~is_cycle_delay
    /\ RenderRows
    /\ pc' = LoopEnd
    /\ UNCHANGED <<should_cycle, random_rules, cell_size, screen_width,
                   screen_height, off_x, off_y, is_running, cycle_index,
                   ruleset, now>>
    /\ UNCHANGED unitvars

\* the part of loop() after the events, lines 404-416
Tick == TickPaused \/ TickDelayWait \/ TickReset \/ TickRender

----------------------------------------------------------------------------
(* events *)

\* the dimensions a WINDOWSIZECHANGED event carries
Dims == 1..MaxDim

\* int(diff / 2) for the larger axis, 0 otherwise
Offset(diff) == IF diff <= 0 THEN 0 ELSE diff \div 2

\* resize_screen dropping the rows that no longer fit
resize_screen_Trim(x, y) ==
    /\ cell_size' = Frac(cell_size[1] * Min(x, y),
                         cell_size[2] * Min(screen_width, screen_height))
    /\ screen_width' = x
    /\ screen_height' = y
    /\ off_x' = Offset(x - y)
    /\ off_y' = Offset(y - x)
    /\ gen_num' = Min(gen_num, 1)
    /\ generations' = SubSeq(generations, 1, gen_num' + 1)
    /\ drawn' = [k \in 1..gen_num' |-> k - 1]
    /\ UNCHANGED <<should_cycle, random_rules, is_cycle_delay,
                   cycle_delay_start_s, is_paused, is_running, cycle_index,
                   ruleset>>

resize_screen(x, y) ==
    /\ cell_size' = Frac(cell_size[1] * Min(x, y),
                         cell_size[2] * Min(screen_width, screen_height))
    /\ screen_width' = x
    /\ screen_height' = y
    /\ off_x' = Offset(x - y)
    /\ off_y' = Offset(y - x)
    /\ drawn' = [k \in 1..gen_num |-> k - 1]
    /\ UNCHANGED <<should_cycle, random_rules, generations, gen_num,
                   is_cycle_delay, cycle_delay_start_s, is_paused, is_running,
                   cycle_index, ruleset>>

\* loop(), the WINDOWSIZECHANGED branch
HandleResize ==
    /\ pc = "loop"
    /\ \E x, y \in Dims : resize_screen(x, y)
    /\ UNCHANGED <<now, pc, last_draw_s>>
    /\ UNCHANGED unitvars

\* loop(), the QUIT branch
HandleQuit ==
    /\ pc = "loop"
    /\ is_running' = FALSE
    /\ drawn' = <<>>
    /\ UNCHANGED <<should_cycle, random_rules, cell_size, screen_width,
                   screen_height, off_x, off_y, generations, gen_num,
                   is_cycle_delay, cycle_delay_start_s, is_paused,
                   cycle_index, ruleset, now, pc, last_draw_s>>
    /\ UNCHANGED unitvars

\* the clock time() reads moves on
AdvanceClock ==
    /\ now < MaxTime
    /\ now' = now + 1
    /\ UNCHANGED <<should_cycle, random_rules, cell_size, screen_width,
                   screen_height, off_x, off_y, generations, gen_num,
                   is_cycle_delay, cycle_delay_start_s, is_paused, is_running,
                   cycle_index, ruleset, pc, drawn, last_draw_s>>
    /\ UNCHANGED unitvars

Max(a, b) == IF a >= b THEN a ELSE b

\* the reading furthest back that still matters to a comparison with now
Horizon == Max(now - CYCLE_DELAY_S, 0)

\* the clock moving on without end: the program reads it only through
\* time() - s.cycle_delay_start_s, so once the reading has reached MaxTime
\* the origin moves on instead and the recorded readings move back, down to
\* the horizon past which the delay has expired anyway
AdvanceClockLive ==
    /\ IF now < MaxTime
       THEN /\ now' = now + 1
            /\ UNCHANGED <<cycle_delay_start_s, last_draw_s>>
       ELSE /\ now' = now
            /\ cycle_delay_start_s' =
                  IF is_cycle_delay
                  THEN Max(cycle_delay_start_s - 1, Horizon)
                  ELSE cycle_delay_start_s
            /\ last_draw_s' =
                  IF last_draw_s = -1 THEN -1
                  ELSE Max(last_draw_s - 1, Horizon)
    /\ UNCHANGED <<should_cycle, random_rules, cell_size, screen_width,
                   screen_height, off_x, off_y, generations, gen_num,
                   is_cycle_delay, is_paused, is_running, cycle_index,
                   ruleset, pc, drawn>>
    /\ UNCHANGED unitvars

Next ==
    \/ TickPaused
    \/ TickDelayWait
    \/ TickReset
    \/ RenderAfterReset
    \/ TickRender
    \/ HandleResize
    \/ HandleQuit
    \/ AdvanceClock

Spec == Init /\ [][Next]_vars

\* the run that is never asked to quit
\* SHOULD_CYCLE = True, the shipped setting (line 30)
InitLive ==
    /\ \E rules \in Pools, rule_value \in RuleValues,
          draws \in DrawSeqs(GENERATION_LEN) :
            StateInit(TRUE, rules, rule_value, draws)
    /\ UnitInit

\* the ticks of a cycling run whose window is left alone
NextLive ==
    \/ TickDelayWait
    \/ TickReset
    \/ RenderAfterReset
    \/ TickRender
    \/ AdvanceClockLive

\* "while state.is_running: loop(state)" keeps calling render_cycle, and the
\* clock keeps advancing
SpecLive ==
    /\ InitLive
    /\ [][NextLive]_vars
    /\ WF_vars(Tick \/ RenderAfterReset)
    /\ WF_vars(AdvanceClockLive)

----------------------------------------------------------------------------
(* Ruleset on its own: construct one from any rule value, look rules up *)

\* the rule values a Ruleset is constructed from
RuleInputs == (0 - MaxOut)..(255 + MaxOut)

Bits == {0, 1}

\* the controller as setup() leaves it, for the unit specifications
CtlIdle == StateInit(TRUE, Pool, -1, <<0>>)

\* the state the unit specifications start in
InitUnit == CtlIdle /\ UnitInit

NewRuleset ==
    /\ \E rule_value \in RuleInputs :
          LET made == Ruleset(rule_value)
          IN  u_ruleset' = [rule_value |-> rule_value,
                            error |-> made.error,
                            _rules |-> made._rules]
    /\ u_res' = Res("Ruleset", 0, 0, u_ruleset'.error, 0, <<>>)
    /\ UNCHANGED u_cells
    /\ UNCHANGED ctlvars

GetRule ==
    /\ u_ruleset.error = "none"
    /\ \E a, b, c \in Bits :
          u_res' = IF GetRuleFails(u_ruleset._rules, a, b, c)
                   THEN Res("get_rule", 0, <<a, b, c>>, "KeyError", 0, <<>>)
                   ELSE Res("get_rule", 0, <<a, b, c>>, "none",
                            get_rule(u_ruleset._rules, a, b, c), <<>>)
    /\ UNCHANGED <<u_ruleset, u_cells>>
    /\ UNCHANGED ctlvars

NextRuleset == NewRuleset \/ GetRule

SpecRuleset == InitUnit /\ [][NextRuleset]_vars

----------------------------------------------------------------------------
(* Generation on its own *)

\* the indices get_cell and set_cell are called with
Indices == (0 - (MaxLen + 1))..(MaxLen + 1)

\* the values set_cell is called with
CellInputs == {-1, 0, 1, 2}

\* the rules a free-standing Generation is evolved under
EvolveRules == 0..255

NewGeneration ==
    /\ \E len \in 0..MaxLen :
          /\ u_cells' = Generation(len)
          /\ u_res' = Res("Generation", 0, 0, "none", len, u_cells)
    /\ UNCHANGED u_ruleset
    /\ UNCHANGED ctlvars

GetCell ==
    /\ \E index \in Indices :
          u_res' = IF IndexFails(u_cells, index)
                   THEN Res("get_cell", index, 0, "IndexError", 0, u_cells)
                   ELSE Res("get_cell", index, 0, "none",
                            get_cell(u_cells, index), u_cells)
    /\ UNCHANGED <<u_ruleset, u_cells>>
    /\ UNCHANGED ctlvars

SetCell ==
    /\ \E index \in Indices, cell \in CellInputs :
          IF IndexFails(u_cells, index)
          THEN /\ u_res' = Res("set_cell", index, cell, "IndexError", 0, u_cells)
               /\ UNCHANGED u_cells
          ELSE /\ u_res' = Res("set_cell", index, cell, "none", 0, u_cells)
               /\ u_cells' = set_cell(u_cells, index, cell)
    /\ UNCHANGED u_ruleset
    /\ UNCHANGED ctlvars

Randomize ==
    /\ IF RandomizeFails(u_cells)
       THEN /\ u_res' = Res("randomize", 0, 0, "ValueError", 0, u_cells)
            /\ u_cells' = Generation(get_len(u_cells))
       ELSE \E draws \in DrawSeqs(get_len(u_cells)) :
            /\ u_res' = Res("randomize", 0, 0, "none", 0, u_cells)
            /\ u_cells' = randomize(u_cells, draws)
    /\ UNCHANGED u_ruleset
    /\ UNCHANGED ctlvars

EvolveCopy ==
    /\ \E rule_value \in EvolveRules :
          /\ u_cells' = evolve_copy(u_cells, Ruleset(rule_value)._rules)
          /\ u_res' = Res("evolve_copy", 0, 0, "none", rule_value, u_cells)
    /\ UNCHANGED u_ruleset
    /\ UNCHANGED ctlvars

NextGeneration ==
    \/ NewGeneration
    \/ GetCell
    \/ SetCell
    \/ Randomize
    \/ EvolveCopy

SpecGeneration == InitUnit /\ [][NextGeneration]_vars

----------------------------------------------------------------------------
(* A single seed evolved once under rule 90: Generation(len), one            *)
(* set_cell(index, 1), one evolve_copy(Ruleset(90))                          *)

SeedNew ==
    /\ \E len \in 3..MaxSeedLen :
          /\ u_cells' = Generation(len)
          /\ u_res' = Res("Generation", 0, 0, "none", len, u_cells)
    /\ UNCHANGED u_ruleset
    /\ UNCHANGED ctlvars

SeedSet ==
    /\ u_res.op = "Generation"
    /\ \E index \in 0..(get_len(u_cells) - 1) :
          /\ u_cells' = set_cell(u_cells, index, 1)
          /\ u_res' = Res("set_cell", index, 1, "none", 0, u_cells)
    /\ UNCHANGED u_ruleset
    /\ UNCHANGED ctlvars

SeedEvolve ==
    /\ u_res.op = "set_cell"
    /\ u_cells' = evolve_copy(u_cells, Ruleset(90)._rules)
    /\ u_res' = Res("evolve_copy", u_res.index, 0, "none", 90, u_cells)
    /\ UNCHANGED u_ruleset
    /\ UNCHANGED ctlvars

NextSeed == SeedNew \/ SeedSet \/ SeedEvolve

SpecSeed == InitUnit /\ [][NextSeed]_vars

----------------------------------------------------------------------------
(* Properties *)

\* bit n of r, bit 0 being the least significant
Bit(r, n) == (r \div (2 ^ n)) % 2

\* the value left*4 + center*2 + right of a neighbourhood
PatternValue(a, b, c) == a * 4 + b * 2 + c

\* C1: evolve_copy returns a row of the same length whose cell i is the rule
\* looked up for cells (i-1+N) mod N, i and (i+1) mod N of the receiver; cell
\* 0 takes cell N-1 as its left neighbour, cell N-1 takes cell 0 as its right.
C1_EvolveWraps ==
    u_res.op = "evolve_copy" =>
        LET cells == u_res.before
            N == Len(cells)
            rules == Ruleset(u_res.value)._rules
        IN  /\ Len(u_cells) = N
            /\ \A i \in 0..(N - 1) :
                  u_cells[i + 1] =
                      get_rule(rules, cells[((i - 1 + N) % N) + 1], cells[i + 1],
                               cells[((i + 1) % N) + 1])
            /\ N >= 1 =>
                  /\ u_cells[1] =
                         get_rule(rules, cells[N], cells[1], cells[(1 % N) + 1])
                  /\ u_cells[N] =
                         get_rule(rules, cells[((N - 2 + N) % N) + 1], cells[N],
                                  cells[1])

\* a row of three cells evolved under rule 30, its first cell taking the last
\* cell as its left neighbour
C1_Witness ==
    /\ u_res.op = "evolve_copy"
    /\ u_res.value = 30
    /\ u_res.before = <<0, 0, 1>>
    /\ u_cells = <<1, 1, 1>>

\* C2 as stated: for a rule r in [0,255] the lookup of the neighbourhood of
\* value k returns bit 7-k of r.
C2_Original ==
    (u_res.op = "get_rule" /\ u_ruleset.rule_value \in 0..255) =>
        /\ u_res.error = "none"
        /\ u_res.value =
              Bit(u_ruleset.rule_value,
                  7 - PatternValue(u_res.cell[1], u_res.cell[2], u_res.cell[3]))

\* C2 (amended): for a rule r in [0,255] the lookup of the neighbourhood of
\* value k = left*4 + center*2 + right succeeds and returns bit k of r,
\* (r >> k) & 1.
C2_LookupBit ==
    (u_res.op = "get_rule" /\ u_ruleset.rule_value \in 0..255) =>
        /\ u_res.error = "none"
        /\ u_res.value =
              Bit(u_ruleset.rule_value,
                  PatternValue(u_res.cell[1], u_res.cell[2], u_res.cell[3]))

\* rule 1 looked up for the neighbourhood 000
C2_Witness ==
    /\ u_res.op = "get_rule"
    /\ u_ruleset.rule_value = 1
    /\ u_res.cell = <<0, 0, 0>>
    /\ u_res.value = 1

\* the 8 neighbourhood keys
AllKeys == {<<Str(a), Str(b), Str(c)>> : a \in Bits, b \in Bits, c \in Bits}

\* C3: for a rule r in [0,255] the table is built, is total over the 8
\* neighbourhoods, and digit i (most significant first) of the 8-bit binary
\* form of r is the output for the neighbourhood of value 7 - i.
C3_TableFromBits ==
    (u_ruleset.error # "unbuilt" /\ u_ruleset.rule_value \in 0..255) =>
        /\ u_ruleset.error = "none"
        /\ DOMAIN u_ruleset._rules = AllKeys
        /\ \A i \in 0..7 : \A a, b, c \in Bits :
              PatternValue(a, b, c) = 7 - i =>
                  u_ruleset._rules[<<Str(a), Str(b), Str(c)>>] =
                      Bit(u_ruleset.rule_value, 7 - i)

\* the table of rule 30 (00011110): 100 gives 1, 101 gives 0
C3_Witness ==
    /\ u_ruleset.rule_value = 30
    /\ u_ruleset.error = "none"
    /\ u_ruleset._rules[<<"1", "0", "0">>] = 1
    /\ u_ruleset._rules[<<"1", "0", "1">>] = 0

\* a step of render_cycle that has called reset() and returned from it
ResetStep == pc = "loop" /\ pc' = "reset_done"

\* the _rules of the pool entry at the traversal position
PoolRules(index) == Ruleset(random_rules[index + 1])._rules

\* C4 as stated: right after reset() the generation count is 0, the sequence
\* has one entry and, the pool having more than one entry, the active rule
\* differs from the one active before the reset.
C4_Original ==
    [][ResetStep =>
        /\ gen_num' = 0
        /\ Len(generations') = 1
        /\ Len(random_rules) > 1 => ruleset' # ruleset]_vars

\* C4 (amended): right after reset() the generation count is 0 and the
\* sequence has one entry; the active rule differs from the one active before
\* the reset when the pool has more than one entry and the rule active before
\* was the pool entry at the traversal position.
C4_ResetChangesRule ==
    [][ResetStep =>
        /\ gen_num' = 0
        /\ Len(generations') = 1
        /\ (Len(random_rules) > 1 /\ ruleset = PoolRules(cycle_index)) =>
              ruleset' # ruleset]_vars

\* reset() has just moved a two-entry pool from its first rule to its second
C4_Witness ==
    /\ pc = "reset_done"
    /\ gen_num = 0
    /\ Len(generations) = 1
    /\ Len(random_rules) = 2
    /\ cycle_index = 1
    /\ ruleset = PoolRules(1)
    /\ ruleset # PoolRules(0)

\* C5 as stated: the row reset() installs is as long as the row of the
\* previous cycle.
C5_Original ==
    [][ResetStep => Len(generations'[1]) = Len(generations[1])]_vars

\* C6: with cycling disabled, the tick that finds the next row not to fit
\* sets the paused flag and not the delay flag; the delay flag is never set;
\* once paused the controller stays paused, and a tick changes none of the
\* sequence, count, rule, traversal position and flags and draws nothing.
C6_PausedForGood ==
    [][~should_cycle =>
        /\ (Tick /\ ~is_paused /\ ~Fits) => (is_paused' /\ ~is_cycle_delay')
        /\ ~is_cycle_delay'
        /\ is_paused => is_paused'
        /\ (Tick /\ is_paused) =>
              /\ UNCHANGED <<generations, gen_num, ruleset, cycle_index,
                             is_cycle_delay, cycle_delay_start_s, is_paused,
                             is_running>>
              /\ drawn' = <<>>]_vars

\* cycling disabled, the display filled and the controller paused
C6_Witness ==
    /\ ~should_cycle
    /\ is_paused
    /\ ~is_cycle_delay
    /\ ~Fits
    /\ gen_num >= 2
    /\ drawn = <<>>

C8_Original ==
    u_ruleset.error # "unbuilt" =>
        /\ u_ruleset.rule_value \in 0..255 => u_ruleset.error = "none"
        /\ u_ruleset.rule_value \notin 0..255 =>
              (u_ruleset.error # "none" /\ u_ruleset._rules = EmptyDict)

\* C9 as stated: get_cell and set_cell fail for every index outside [0, N),
\* and the failed set_cell leaves the cells as they were.
C9_Original ==
    (/\ u_res.op \in {"get_cell", "set_cell"}
     /\ (u_res.index < 0 \/ u_res.index >= Len(u_res.before))) =>
        /\ u_res.error = "IndexError"
        /\ u_cells = u_res.before

\* C10: randomize() raises nothing, and the row it has just filled, at
\* start-up or in reset(), holds at least one 1 and only 0s and 1s.
C10_RandomizeSeeds ==
    /\ pc # "raised"
    /\ (gen_num = 0 /\ Len(generations) = 1) =>
          /\ Len(generations[1]) >= 1
          /\ \E k \in 1..Len(generations[1]) : generations[1][k] = 1
          /\ \A k \in 1..Len(generations[1]) : generations[1][k] \in {0, 1}

\* reset() has just randomized a row of three cells, setting two of them
C10_Witness ==
    /\ pc = "reset_done"
    /\ gen_num = 0
    /\ Len(generations[1]) = 3
    /\ generations[1] = <<1, 0, 1>>

\* C11: set_cell stores 1 for any nonzero value and 0 for 0, and after any
\* sequence of Generation(), set_cell, randomize and evolve_copy every cell
\* of the row is 0 or 1.
C11_CellsBinary ==
    /\ \A k \in 1..Len(u_cells) : u_cells[k] \in {0, 1}
    /\ (u_res.op = "set_cell" /\ u_res.error = "none") =>
          u_cells[Pos(u_res.before, u_res.index)] =
              IF u_res.cell = 0 THEN 0 ELSE 1

\* set_cell(1, 2) has stored 1 in a row of three cells
C11_Witness ==
    /\ u_res.op = "set_cell"
    /\ u_res.error = "none"
    /\ u_res.index = 1
    /\ u_res.cell = 2
    /\ Len(u_cells) = 3
    /\ u_cells[2] = 1

\* C12: under rule 90 a row of N >= 3 cells whose only 1 is at index s
\* evolves into the row with 1 at (s-1) mod N and (s+1) mod N and 0
\* elsewhere; for N = 10 and s = 5 that is 1 at indices 4 and 6 only.
C12_Rule90Seed ==
    (u_res.op = "evolve_copy" /\ u_res.value = 90) =>
        LET N == Len(u_res.before)
            s == u_res.index
        IN  /\ N >= 3
            /\ \A i \in 0..(N - 1) : u_res.before[i + 1] = IF i = s THEN 1 ELSE 0
            /\ Len(u_cells) = N
            /\ \A i \in 0..(N - 1) :
                  u_cells[i + 1] =
                      IF i = (s - 1 + N) % N \/ i = (s + 1) % N THEN 1 ELSE 0
            /\ (N = 10 /\ s = 5) =>
                  u_cells = <<0, 0, 0, 0, 1, 0, 1, 0, 0, 0>>

\* the row of 10 cells seeded at index 5, evolved once under rule 90
C12_Witness ==
    /\ u_res.op = "evolve_copy"
    /\ u_res.value = 90
    /\ u_res.before = <<0, 0, 0, 0, 0, 1, 0, 0, 0, 0>>
    /\ u_cells = <<0, 0, 0, 0, 1, 0, 1, 0, 0, 0>>

\* the step that ends the tick in which reset() was called
ResetTickEnds == pc = "reset_done" /\ pc' # "reset_done"

\* the row of index gen_num fits: off_y + gen_num * cell_size + cell_size
\* does not pass screen_height - off_y
RowFits ==
    (off_y * cell_size[2]) + ((gen_num + 1) * cell_size[1])
        <= (screen_height - off_y) * cell_size[2]

\* C13 as stated: the tick that finds the delay elapsed ends with generation
\* count 0 and the one randomized generation, nothing evolved or drawn.
C13_Original ==
    [][ResetTickEnds =>
        /\ gen_num' = 0
        /\ Len(generations') = 1
        /\ drawn' = <<>>]_vars

\* C13 (amended): the tick that finds the delay elapsed performs reset(),
\* clears the delay flag and goes on as a stepping tick: the first row
\* fitting, it draws generation 0 and appends its successor, ending with
\* generation count 1 and two generations; otherwise it draws nothing and
\* re-enters the delay (paused, with cycling disabled).
C13_ResetTickSteps ==
    [][/\ ResetStep =>
            (gen_num' = 0 /\ Len(generations') = 1 /\ ~is_cycle_delay'
             /\ drawn' = <<>>)
       /\ ResetTickEnds =>
            IF RowFits
            THEN /\ gen_num' = 1
                 /\ Len(generations') = 2
                 /\ generations'[1] = generations[1]
                 /\ drawn' = <<0>>
                 /\ ~is_cycle_delay' /\ ~is_paused'
            ELSE /\ gen_num' = 0
                 /\ generations' = generations
                 /\ drawn' = <<>>
                 /\ is_cycle_delay' = should_cycle
                 /\ is_paused' = ~should_cycle]_vars

\* the tick that called reset() has ended, with generation 0 of the second
\* cycle drawn and its successor stored
C13_Witness ==
    /\ pc \in {"loop", "stopped"}
    /\ cycle_index = 1
    /\ Len(random_rules) = 2
    /\ gen_num = 1
    /\ Len(generations) = 2
    /\ Len(generations[1]) = 3
    /\ drawn = <<0>>

\* C14 as stated: in every reachable state the generation count is at most
\* the rows of the current cell size that fit between the vertical offsets:
\* off_y + gen_num * cell_size <= screen_height - off_y.
C14_Original ==
    (off_y * cell_size[2]) + (gen_num * cell_size[1])
        <= (screen_height - off_y) * cell_size[2]

\* C15: the delay flag and the paused flag are never both set, the delay
\* flag is set only with cycling enabled and the paused flag only with
\* cycling disabled, so that exactly one of stepping (neither flag), in
\* delay and paused holds.
C15_OneMode ==
    /\ ~(is_cycle_delay /\ is_paused)
    /\ is_cycle_delay => should_cycle
    /\ is_paused => ~should_cycle
    /\ Cardinality({m \in {"stepping", "delay", "paused"} :
            \/ m = "stepping" /\ ~is_cycle_delay /\ ~is_paused
            \/ m = "delay" /\ is_cycle_delay
            \/ m = "paused" /\ is_paused}) = 1

\* cycling enabled, the display full and the controller in the delay
C15_Witness ==
    /\ should_cycle
    /\ is_cycle_delay
    /\ ~is_paused
    /\ is_running
    /\ gen_num >= 2
    /\ ~RowFits

\* C16: the traversal position stays in [0, len(pool)); the pool is never
\* reordered; each reset() moves the position to (position + 1) mod
\* len(pool) and leaves the rule table decoded from the pool entry there;
\* no other step moves the position.
C16_TraversalWraps ==
    [][/\ Len(random_rules) >= 1
       /\ cycle_index \in 0..(Len(random_rules) - 1)
       /\ cycle_index' \in 0..(Len(random_rules) - 1)
       /\ random_rules' = random_rules
       /\ ResetStep =>
            /\ cycle_index' = (cycle_index + 1) % Len(random_rules)
            /\ ruleset' = Ruleset(random_rules[cycle_index' + 1])._rules
       /\ ~ResetStep => cycle_index' = cycle_index]_vars

\* the second reset() of a run has wrapped a two-entry pool back to entry 0
C16_Witness ==
    /\ pc = "reset_done"
    /\ Len(random_rules) = 2
    /\ cycle_index = 0
    /\ now >= 2 * CYCLE_DELAY_S
    /\ ruleset = PoolRules(0)

\* C17: a resize changes cell size, screen dimensions and offsets only: the
\* generations, the generation count, the active rule, the traversal
\* position and the delay, paused and running flags are as before, in
\* whatever mode it arrives.
C17_ResizeFrame ==
    [][/\ HandleResize =>
            UNCHANGED <<generations, gen_num, ruleset, cycle_index,
                        random_rules, is_cycle_delay, is_paused, is_running>>
       /\ <<screen_width', screen_height'>> # <<screen_width, screen_height>> =>
            UNCHANGED <<generations, gen_num, ruleset, cycle_index,
                        random_rules, is_cycle_delay, is_paused, is_running>>]_vars

\* a resize has arrived during the delay and redrawn the rows of the cycle
C17_Witness ==
    /\ is_cycle_delay
    /\ pc = "loop"
    /\ screen_width = 1
    /\ screen_height = 2
    /\ gen_num >= 2
    /\ Len(drawn) = gen_num

\* C18: evolve_copy returns a row as long as its receiver, so every
\* generation stored in a cycle is as long as the cycle's first generation.
C18_SameLength ==
    \A k \in 1..Len(generations) :
        Len(generations[k]) = Len(generations[1])

\* three generations of the second cycle, all of three cells
C18_Witness ==
    /\ cycle_index = 1
    /\ Len(generations) >= 3
    /\ Len(generations[1]) = 3
    /\ Len(generations[3]) = 3

\* row next is row prev evolved once under the rules, neighbours wrapping
EvolvedFrom(next, prev, rules) ==
    LET N == Len(prev)
    IN  /\ Len(next) = N
        /\ \A i \in 0..(N - 1) :
              next[i + 1] =
                  rules[<<Str(prev[((i - 1 + N) % N) + 1]), Str(prev[i + 1]),
                          Str(prev[((i + 1) % N) + 1])>>]

\* C19: the sequence holds gen_num + 1 generations, each one after the
\* first being its predecessor evolved under the active rule, and a step
\* other than reset() leaves every stored generation as it was.
C19_SequenceEvolved ==
    [][/\ Len(generations) = gen_num + 1
       /\ Len(generations') = gen_num' + 1
       /\ \A i \in 1..gen_num' :
             EvolvedFrom(generations'[i + 1], generations'[i], ruleset')
       /\ ~ResetStep =>
             /\ Len(generations') >= Len(generations)
             /\ \A k \in 1..Len(generations) :
                   generations'[k] = generations[k]
             /\ ruleset' = ruleset]_vars

\* three generations stored, each differing from the one before
C19_Witness ==
    /\ gen_num = 2
    /\ Len(generations) = 3
    /\ generations[2] # generations[1]
    /\ generations[3] # generations[2]
    /\ generations[3] # generations[1]

====
